---- MODULE Spec2Model ----
(***************************************************************************)
(* Model of the Upload helper of max-bot-api-client-ts                     *)
(* (src/src/core/helpers/upload.ts).                                       *)
(*                                                                         *)
(* One upload call is a public method (image / video / file / audio) that  *)
(* normalises its source (getStreamFromSource), asks the platform for an   *)
(* upload URL, arms a deadline timer and runs one of two transmitters:     *)
(* uploadFromStream (one fetch per 'data' event of an fs.ReadStream) or    *)
(* uploadFromBuffer (one multipart fetch).                                 *)
(*                                                                         *)
(* The model follows the event loop of Node.js: every action is one        *)
(* callback or one continuation of an `await`, run to its next await       *)
(* point.  The environment (file system, stream, upload server, platform   *)
(* API, timer) chooses what happens next.                                  *)
(***************************************************************************)
EXTENDS Integers, Sequences, FiniteSets, TLC

\* ------------------------------------------------------------------ bounds
\* longest stream, in chunks ('data' events)
MaxChunks == 2
\* largest chunk, in bytes
MaxChunkLen == 2

\* ------------------------------------------------------- program constants
\* upload.ts:6 (UploadType): the media kinds, one public method each
UploadType == {"image", "video", "file", "audio"}

\* the calls of one behaviour; a call that is never made stays "absent"
CallIds == {1, 2}

\* HTTP statuses the upload server answers with, on both sides of the
\* `>= 400` comparison of upload.ts:144
Statuses == {200, 399, 400}

\* what Response.json() yields: "unparseable" makes it reject; "null" is the
\* JSON value null (parses, falsy); "P1" and "P2" are JSON objects (truthy)
Bodies == {"unparseable", "null", "P1", "P2"}

Parses(b) == b # "unparseable"

\* JavaScript truthiness of a parsed body, as `!uploadData` reads it
Truthy(b) == b \in {"P1", "P2"}

\* bytes of the backing file that lie before the first byte a caller-made
\* fs.ReadStream delivers (its `start` option, or what was read before)
Skips == {0, 1}

RECURSIVE SeqsUpTo(_, _)
SeqsUpTo(S, n) ==
  IF n = 0 THEN {<<>>}
  ELSE LET shorter == SeqsUpTo(S, n - 1)
       IN shorter \cup {Append(s, x) : s \in {t \in shorter : Len(t) = n - 1}, x \in S}

\* the chunkings a stream can deliver
ChunkSeqs == SeqsUpTo(1..MaxChunkLen, MaxChunks)

RECURSIVE SumSeq(_)
SumSeq(s) == IF s = <<>> THEN 0 ELSE Head(s) + SumSeq(Tail(s))

\* ------------------------------------------------------------------ values
Err(type, status, body) == [type |-> type, status |-> status, body |-> body]
NoErr == Err("none", 0, "none")

NoFile == [variant |-> "none", contentLength |-> 0]

\* one fetch of a transmitter and the handler invocation that awaits it
Req(hasRange, start, end, total, len, phase, err) ==
  [hasRange |-> hasRange, start |-> start, end |-> end, total |-> total,
   len |-> len, phase |-> phase, status |-> 0, body |-> "none", err |-> err]

VARIABLES
  input,       \* per call: the arguments and what the file system holds
  pc,          \* per call: where the public method is
  settled,     \* per call: "pending", "resolved" or "rejected"
  result,      \* per call: the value the call resolved with
  error,       \* per call: the error the call rejected with
  urlCalls,    \* per call: getUploadUrl requests made
  timer,       \* per call: the deadline timer (uploadInterval)
  delay,       \* per call: the delay the timer was created with, in ms
  aborted,     \* per call: uploadController.signal.aborted
  file,        \* per call: the UploadFile of getStreamFromSource
  flowing,     \* per call: the stream is in flowing mode
  remaining,   \* per call: chunk lengths the stream has yet to deliver
  streamState, \* per call: "open", "ended" or "errored"
  prevChunk,   \* per call: the closure variable of uploadFromStream
  uploadData,  \* per call: the closure variable of uploadFromStream
  reqs         \* per call: the fetches made, in order, with their handlers

vars == <<input, pc, settled, result, error, urlCalls, timer, delay, aborted,
          file, flowing, remaining, streamState, prevChunk, uploadData, reqs>>

outcomeVars == <<settled, result, error, pc, timer>>
streamVars == <<flowing, remaining, streamState>>
closureVars == <<prevChunk, uploadData>>

\* ---------------------------------------------------------------- inputs
\* the sources a caller can pass: a path (fsKind: what stat finds there, a
\* regular file, a directory or nothing), a Buffer, or an fs.ReadStream the
\* caller opened
Sources ==
  {[kind |-> "path", fsKind |-> "file", chunks |-> cs, skip |-> 0] : cs \in ChunkSeqs}
  \cup {[kind |-> "path", fsKind |-> k, chunks |-> <<>>, skip |-> 0] : k \in {"dir", "missing"}}
  \cup {[kind |-> "buffer", fsKind |-> "file", chunks |-> <<>>, skip |-> 0]}
  \cup {[kind |-> "stream", fsKind |-> "file", chunks |-> cs, skip |-> sk] :
          cs \in ChunkSeqs, sk \in Skips}
  \cup {[kind |-> "stream", fsKind |-> "missing", chunks |-> <<>>, skip |-> 0]}

\* upload.ts:10-12, the `timeout` option: <<>> when the caller gives none
Timeouts == {<<>>, <<0>>, <<5000>>}

\* upload.ts:18-20, the `url` option of image: "none" when the caller gives none
Urls == {"https://a", "https://b"}

NoSource == [kind |-> "buffer", fsKind |-> "file", chunks |-> <<>>, skip |-> 0]

\* upload.ts:39-42: the options of image / video / file / audio; only image
\* takes a url instead of a source
Inputs ==
  {[op |-> o, source |-> s, timeout |-> t, url |-> "none"] :
     o \in UploadType, s \in Sources, t \in Timeouts}
  \cup {[op |-> "image", source |-> NoSource, timeout |-> t, url |-> u] :
          t \in Timeouts, u \in Urls}

NoInput == [op |-> "image", source |-> NoSource, timeout |-> <<>>, url |-> "none"]

\* size of the file behind a source, as stat reports it
StatSize(src) == src.skip + SumSeq(src.chunks)

\* the state right after the calls in `started` were made with arguments `ins`
InitWith(ins, started) ==
  /\ input = ins
  /\ pc = [c \in CallIds |-> IF c \in started THEN "normalize" ELSE "absent"]
  /\ settled = [c \in CallIds |-> "pending"]
  /\ result = [c \in CallIds |-> "none"]
  /\ error = [c \in CallIds |-> NoErr]
  /\ urlCalls = [c \in CallIds |-> 0]
  /\ timer = [c \in CallIds |-> "none"]
  /\ delay = [c \in CallIds |-> 0]
  /\ aborted = [c \in CallIds |-> FALSE]
  /\ file = [c \in CallIds |-> NoFile]
  /\ flowing = [c \in CallIds |-> FALSE]
  /\ remaining = [c \in CallIds |-> ins[c].source.chunks]
  /\ streamState = [c \in CallIds |-> "open"]
  /\ prevChunk = [c \in CallIds |-> -1]
  /\ uploadData = [c \in CallIds |-> "null"]
  /\ reqs = [c \in CallIds |-> <<>>]

\* one upload call, with any operation and any source
Init ==
  \E in \in Inputs : InitWith([c \in CallIds |-> IF c = 1 THEN in ELSE NoInput], {1})

\* ------------------------------------------------------- source normalizer
\* upload.ts:49-89.  The outcome of getStreamFromSource: the error it throws
\* (NoErr when it returns) and the UploadFile it returns.
getStreamFromSource_NoIsFileCheck(src) ==
  IF src.kind = "buffer"
  THEN [threw |-> NoErr, file |-> [variant |-> "buffer", contentLength |-> 0]]
  ELSE IF src.fsKind = "missing"
  THEN [threw |-> Err("IOError", 0, "none"), file |-> NoFile]
  ELSE [threw |-> NoErr, file |-> [variant |-> "stream", contentLength |-> StatSize(src)]]

getStreamFromSource(src) ==
  IF src.kind = "path"
  THEN \* :50-65  stat, isFile check, createReadStream
       IF src.fsKind = "missing"
       THEN [threw |-> Err("IOError", 0, "none"), file |-> NoFile]
       ELSE IF src.fsKind # "file"
       THEN [threw |-> Err("NotAFile", 0, "none"), file |-> NoFile]
       ELSE [threw |-> NoErr,
             file |-> [variant |-> "stream", contentLength |-> StatSize(src)]]
  ELSE IF src.kind = "buffer"
  THEN \* :67-72
       [threw |-> NoErr, file |-> [variant |-> "buffer", contentLength |-> 0]]
  ELSE \* :74-88  stat(source.path): the size of the whole file, no isFile check
       IF src.fsKind = "missing"
       THEN [threw |-> Err("IOError", 0, "none"), file |-> NoFile]
       ELSE [threw |-> NoErr,
             file |-> [variant |-> "stream", contentLength |-> StatSize(src)]]

\* ------------------------------------------------------------ call outcome
\* the public method's promise rejects before upload() created a timer
RejectEarly(c, e) ==
  /\ settled' = [settled EXCEPT ![c] = "rejected"]
  /\ error' = [error EXCEPT ![c] = e]
  /\ pc' = [pc EXCEPT ![c] = "done"]
  /\ UNCHANGED <<result, timer>>

\* upload.ts:100-116.  A transmitter's promise settled with `outcome`: the
\* finally block clears the timer, and the public method's promise follows.
UploadExit_ClearOnSuccessOnly(c, outcome, v, e) ==
  /\ settled' = [settled EXCEPT ![c] = outcome]
  /\ result' = [result EXCEPT ![c] = v]
  /\ error' = [error EXCEPT ![c] = e]
  /\ pc' = [pc EXCEPT ![c] = "done"]
  /\ timer' = [timer EXCEPT ![c] = IF outcome = "resolved" THEN "cleared" ELSE @]

UploadExit(c, outcome, v, e) ==
  /\ settled' = [settled EXCEPT ![c] = outcome]
  /\ result' = [result EXCEPT ![c] = v]
  /\ error' = [error EXCEPT ![c] = e]
  /\ pc' = [pc EXCEPT ![c] = "done"]
  /\ timer' = [timer EXCEPT ![c] = "cleared"]

\* ------------------------------------------------------------- public call
\* upload.ts:187-224 up to the first await of upload() (:92).  The method
\* awaits getStreamFromSource and, when it returned, calls upload(), which
\* issues the getUploadUrl request.
Normalize(c) ==
  /\ pc[c] = "normalize"
  /\ input[c].url = "none"
  /\ LET r == getStreamFromSource(input[c].source)
     IN IF r.threw # NoErr
        THEN /\ RejectEarly(c, r.threw)
             /\ UNCHANGED <<file, urlCalls>>
        ELSE /\ file' = [file EXCEPT ![c] = r.file]
             /\ urlCalls' = [urlCalls EXCEPT ![c] = @ + 1]
             /\ pc' = [pc EXCEPT ![c] = "getUrl"]
             /\ UNCHANGED <<settled, result, error, timer>>
  /\ UNCHANGED <<input, delay, aborted, streamVars, closureVars, reqs>>

\* upload.ts:188-190: image called with a url returns an object holding that
\* url, before anything else is done
UrlObject(u) == "{ url: " \o u \o " }"

ReturnUrl_AfterUploadUrl(c) ==
  /\ settled' = [settled EXCEPT ![c] = "resolved"]
  /\ result' = [result EXCEPT ![c] = UrlObject(input[c].url)]
  /\ pc' = [pc EXCEPT ![c] = "done"]
  /\ urlCalls' = [urlCalls EXCEPT ![c] = @ + 1]
  /\ UNCHANGED <<error, timer>>

ReturnUrl(c) ==
  /\ settled' = [settled EXCEPT ![c] = "resolved"]
  /\ result' = [result EXCEPT ![c] = UrlObject(input[c].url)]
  /\ pc' = [pc EXCEPT ![c] = "done"]
  /\ UNCHANGED <<error, timer, urlCalls>>

ImageUrl(c) ==
  /\ pc[c] = "normalize"
  /\ input[c].op = "image"
  /\ input[c].url # "none"
  /\ ReturnUrl(c)
  /\ UNCHANGED <<input, delay, aborted, file, streamVars, closureVars, reqs>>

\* upload.ts:44
DEFAULT_UPLOAD_TIMEOUT == 20000

\* upload.ts:98, `options?.timeout || DEFAULT_UPLOAD_TIMEOUT`: the delay given
\* to setTimeout; `||` takes the default for undefined and for 0
TimerDelay(opt) ==
  IF opt = <<>> \/ opt[1] = 0 THEN DEFAULT_UPLOAD_TIMEOUT ELSE opt[1]

\* upload.ts:92 rejects: upload() throws before :94, nothing was set up
GetUploadUrlFail_RetryOnce(c) ==
  /\ pc[c] = "getUrl"
  /\ IF urlCalls[c] < 2
     THEN /\ urlCalls' = [urlCalls EXCEPT ![c] = @ + 1]
          /\ UNCHANGED <<settled, result, error, pc, timer>>
     ELSE /\ RejectEarly(c, Err("ApiError", 0, "none"))
          /\ UNCHANGED urlCalls
  /\ UNCHANGED <<input, delay, aborted, file, streamVars, closureVars, reqs>>

GetUploadUrlFail(c) ==
  /\ pc[c] = "getUrl"
  /\ RejectEarly(c, Err("ApiError", 0, "none"))
  /\ UNCHANGED <<input, delay, urlCalls, aborted, file, streamVars, closureVars, reqs>>

\* upload.ts:92-113, :124-167 (listeners attached; on('data') switches the
\* stream to flowing mode) and :175-182 (the multipart fetch is issued)
GetUploadUrlOk(c) ==
  /\ pc[c] = "getUrl"
  /\ pc' = [pc EXCEPT ![c] = "transfer"]
  /\ timer' = [timer EXCEPT ![c] = "armed"]
  /\ delay' = [delay EXCEPT ![c] = TimerDelay(input[c].timeout)]
  /\ IF file[c].variant = "stream"
     THEN /\ flowing' = [flowing EXCEPT ![c] = TRUE]
          /\ UNCHANGED reqs
     ELSE /\ reqs' = [reqs EXCEPT ![c] =
                        Append(@, Req(FALSE, 0, 0, 0, 0, "fetch", NoErr))]
          /\ UNCHANGED flowing
  /\ UNCHANGED <<input, settled, result, error, urlCalls, aborted, file,
                 remaining, streamState, closureVars>>

\* ------------------------------------------------------- requests in flight
\* a fetch whose handler is still suspended on it (:134) or on its body
\* (:145, :150, :184)
Pending(r) == r.phase \in {"fetch", "json"}

InFlight(c) == {i \in DOMAIN reqs[c] : Pending(reqs[c][i])}

\* Readable.resume() / Readable.pause(): nothing flows from a stream that
\* has ended or was destroyed
Resume(c) == [flowing EXCEPT ![c] = TRUE]
Pause(c) == [flowing EXCEPT ![c] = FALSE]

\* ------------------------------------------------ chunked stream transmitter
\* upload.ts:128-142, the 'data' handler up to its first await: pause the
\* stream, compute the range from prevChunk, issue the fetch.  A fetch given
\* an already aborted signal rejects without sending anything.
OnData_NoPause(c, len) ==
  /\ flowing' = flowing
  /\ reqs' = [reqs EXCEPT ![c] =
       Append(@, IF aborted[c]
                 THEN Req(TRUE, prevChunk[c] + 1, prevChunk[c] + len,
                          file[c].contentLength, len, "threw",
                          Err("AbortError", 0, "none"))
                 ELSE Req(TRUE, prevChunk[c] + 1, prevChunk[c] + len,
                          file[c].contentLength, len, "fetch", NoErr))]

OnData(c, len) ==
  LET startBite == prevChunk[c] + 1
      endBite == prevChunk[c] + len
  IN /\ flowing' = Pause(c)
     /\ reqs' = [reqs EXCEPT ![c] =
          Append(@, IF aborted[c]
                    THEN Req(TRUE, startBite, endBite, file[c].contentLength,
                             len, "threw", Err("AbortError", 0, "none"))
                    ELSE Req(TRUE, startBite, endBite, file[c].contentLength,
                             len, "fetch", NoErr))]

\* a stream that went on delivering after it was destroyed
StreamData_AfterDestroy(c) ==
  /\ file[c].variant = "stream"
  /\ streamState[c] # "ended"
  /\ flowing[c]
  /\ remaining[c] # <<>>
  /\ remaining' = [remaining EXCEPT ![c] = Tail(@)]
  /\ OnData(c, Head(remaining[c]))
  /\ UNCHANGED <<input, delay, outcomeVars, urlCalls, aborted, file, streamState, closureVars>>

\* the stream emits 'data': it is flowing and has a chunk to deliver
StreamData(c) ==
  /\ pc[c] = "transfer"
  /\ file[c].variant = "stream"
  /\ streamState[c] = "open"
  /\ flowing[c]
  /\ remaining[c] # <<>>
  /\ remaining' = [remaining EXCEPT ![c] = Tail(@)]
  /\ OnData(c, Head(remaining[c]))
  /\ UNCHANGED <<input, delay, outcomeVars, urlCalls, aborted, file, streamState, closureVars>>

\* upload.ts:157-163, the 'end' handler.  'end' is emitted in flowing mode
\* once every chunk was delivered.
OnEnd_ResolveAnyway(c) ==
  UploadExit(c, "resolved", uploadData[c], NoErr)

OnEnd(c) ==
  IF ~Truthy(uploadData[c])
  THEN UploadExit(c, "rejected", "none", Err("FailedToUpload", 0, "none"))
  ELSE UploadExit(c, "resolved", uploadData[c], NoErr)

StreamEnd(c) ==
  /\ pc[c] = "transfer"
  /\ file[c].variant = "stream"
  /\ streamState[c] = "open"
  /\ flowing[c]
  /\ remaining[c] = <<>>
  /\ streamState' = [streamState EXCEPT ![c] = "ended"]
  /\ OnEnd(c)
  /\ UNCHANGED <<input, delay, urlCalls, aborted, file, flowing, remaining, closureVars, reqs>>

\* upload.ts:164-166, the 'error' handler.  A read error destroys the
\* stream, flowing or paused (a paused fs.ReadStream still reads ahead).
OnError_KeepCapturedPayload(c) ==
  IF Truthy(uploadData[c])
  THEN UploadExit(c, "resolved", uploadData[c], NoErr)
  ELSE UploadExit(c, "rejected", "none", Err("StreamError", 0, "none"))

OnError(c) ==
  UploadExit(c, "rejected", "none", Err("StreamError", 0, "none"))

StreamError(c) ==
  /\ pc[c] = "transfer"
  /\ file[c].variant = "stream"
  /\ streamState[c] = "open"
  /\ streamState' = [streamState EXCEPT ![c] = "errored"]
  /\ OnError(c)
  /\ UNCHANGED <<input, delay, urlCalls, aborted, file, flowing, remaining, closureVars, reqs>>

HandlerTail_AdvanceOnResume(c, i, phase, s, b) ==
  /\ flowing' = Resume(c)
  /\ prevChunk' = [prevChunk EXCEPT ![c] = @ + 1]
  /\ reqs' = [reqs EXCEPT ![c][i].phase = phase, ![c][i].status = s, ![c][i].body = b]

\* upload.ts:153-155, the tail of the 'data' handler of request i
HandlerTail(c, i, phase, s, b) ==
  /\ flowing' = Resume(c)
  /\ prevChunk' = [prevChunk EXCEPT ![c] = @ + reqs[c][i].len]
  /\ reqs' = [reqs EXCEPT ![c][i].phase = phase, ![c][i].status = s, ![c][i].body = b]

\* the 'data' handler of request i throws e: its promise rejects, and the
\* emitter that called the handler does not look at that promise (the
\* process sees an unhandled rejection).  Neither resolve nor reject of the
\* promise of uploadFromStream is called, and the stream stays paused.
HandlerThrows(c, i, s, b, e) ==
  /\ reqs' = [reqs EXCEPT ![c][i].phase = "threw", ![c][i].status = s,
                          ![c][i].body = b, ![c][i].err = e]
  /\ UNCHANGED <<flowing, prevChunk>>

ChunkResponse_AlwaysRead(c, i, s) ==
  /\ reqs' = [reqs EXCEPT ![c][i].phase = "json", ![c][i].status = s]
  /\ UNCHANGED <<flowing, prevChunk>>

\* upload.ts:134-151: the fetch of chunk request i resolved with status s.
\* The handler goes on to read the body (:145 or :150) or, with a payload
\* already captured, straight to :153.
ChunkResponse(c, i, s) ==
  IF s >= 400 \/ ~Truthy(uploadData[c])
  THEN /\ reqs' = [reqs EXCEPT ![c][i].phase = "json", ![c][i].status = s]
       /\ UNCHANGED <<flowing, prevChunk>>
  ELSE HandlerTail(c, i, "done", s, "none")

\* upload.ts:144-155: the body of chunk response i was read as b
ChunkBody(c, i, b) ==
  LET s == reqs[c][i].status
  IN IF ~Parses(b)
     THEN \* :145 or :150 rejects
          HandlerThrows(c, i, s, b, Err("SyntaxError", 0, "none")) /\ UNCHANGED uploadData
     ELSE IF s >= 400
     THEN \* :146
          HandlerThrows(c, i, s, b, Err("MaxError", s, b)) /\ UNCHANGED uploadData
     ELSE \* :150-155
          HandlerTail(c, i, "done", s, b) /\ uploadData' = [uploadData EXCEPT ![c] = b]

ChunkFetchResolves(c, i, s) ==
  /\ i \in DOMAIN reqs[c]
  /\ reqs[c][i].hasRange
  /\ reqs[c][i].phase = "fetch"
  /\ ChunkResponse(c, i, s)
  /\ UNCHANGED <<input, delay, outcomeVars, urlCalls, aborted, file, remaining,
                 streamState, uploadData>>

\* upload.ts:134 rejects: a transport failure of chunk request i
ChunkFetchRejects(c, i) ==
  /\ i \in DOMAIN reqs[c]
  /\ reqs[c][i].hasRange
  /\ reqs[c][i].phase = "fetch"
  /\ HandlerThrows(c, i, 0, "none", Err("FetchError", 0, "none"))
  /\ UNCHANGED <<input, delay, outcomeVars, urlCalls, aborted, file, remaining,
                 streamState, uploadData>>

ChunkBodyRead(c, i, b) ==
  /\ i \in DOMAIN reqs[c]
  /\ reqs[c][i].hasRange
  /\ reqs[c][i].phase = "json"
  /\ ChunkBody(c, i, b)
  /\ UNCHANGED <<input, delay, outcomeVars, urlCalls, aborted, file, remaining, streamState>>

\* ---------------------------------------------------------- buffer transmitter
\* upload.ts:178-184: the one fetch of uploadFromBuffer resolved with status s;
\* the status is not looked at, the handler goes on to read the body
BufferFetchResolves(c, s) ==
  /\ reqs[c] # <<>>
  /\ ~reqs[c][1].hasRange
  /\ reqs[c][1].phase = "fetch"
  /\ reqs' = [reqs EXCEPT ![c][1].phase = "json", ![c][1].status = s]
  /\ UNCHANGED <<input, delay, outcomeVars, urlCalls, aborted, file, streamVars, closureVars>>

\* upload.ts:178 rejects: uploadFromBuffer rejects with the transport error
BufferFetchRejects(c) ==
  /\ reqs[c] # <<>>
  /\ ~reqs[c][1].hasRange
  /\ reqs[c][1].phase = "fetch"
  /\ reqs' = [reqs EXCEPT ![c][1].phase = "threw",
                          ![c][1].err = Err("FetchError", 0, "none")]
  /\ UploadExit(c, "rejected", "none", Err("FetchError", 0, "none"))
  /\ UNCHANGED <<input, delay, urlCalls, aborted, file, streamVars, closureVars>>

\* upload.ts:184: the body was read as b
BufferBody_CheckStatus(c, b) ==
  IF ~Parses(b)
  THEN /\ reqs' = [reqs EXCEPT ![c][1].phase = "threw", ![c][1].body = b,
                               ![c][1].err = Err("SyntaxError", 0, "none")]
       /\ UploadExit(c, "rejected", "none", Err("SyntaxError", 0, "none"))
  ELSE IF reqs[c][1].status >= 400
  THEN /\ reqs' = [reqs EXCEPT ![c][1].phase = "threw", ![c][1].body = b,
                               ![c][1].err = Err("MaxError", reqs[c][1].status, b)]
       /\ UploadExit(c, "rejected", "none", Err("MaxError", reqs[c][1].status, b))
  ELSE /\ reqs' = [reqs EXCEPT ![c][1].phase = "done", ![c][1].body = b]
       /\ UploadExit(c, "resolved", b, NoErr)

BufferBody(c, b) ==
  IF ~Parses(b)
  THEN /\ reqs' = [reqs EXCEPT ![c][1].phase = "threw", ![c][1].body = b,
                               ![c][1].err = Err("SyntaxError", 0, "none")]
       /\ UploadExit(c, "rejected", "none", Err("SyntaxError", 0, "none"))
  ELSE /\ reqs' = [reqs EXCEPT ![c][1].phase = "done", ![c][1].body = b]
       /\ UploadExit(c, "resolved", b, NoErr)

BufferBodyRead(c, b) ==
  /\ reqs[c] # <<>>
  /\ ~reqs[c][1].hasRange
  /\ reqs[c][1].phase = "json"
  /\ BufferBody(c, b)
  /\ UNCHANGED <<input, delay, urlCalls, aborted, file, streamVars, closureVars>>

\* ------------------------------------------------------------ deadline timer
\* every pending fetch or body read of the call rejects with the abort error
AbortPending(c) ==
  [reqs EXCEPT ![c] =
     [i \in DOMAIN @ |->
        IF Pending(@[i])
        THEN [@[i] EXCEPT !.phase = "threw", !.err = Err("AbortError", 0, "none")]
        ELSE @[i]]]

\* a controller shared by all calls instead of one per call of upload()
Timeout_SharedController(c) ==
  /\ timer[c] = "armed"
  /\ aborted' = [d \in CallIds |-> TRUE]
  /\ reqs' = [d \in CallIds |->
       [i \in DOMAIN reqs[d] |->
          IF Pending(reqs[d][i])
          THEN [reqs[d][i] EXCEPT !.phase = "threw", !.err = Err("AbortError", 0, "none")]
          ELSE reqs[d][i]]]
  /\ IF file[c].variant = "buffer" /\ InFlight(c) # {}
     THEN UploadExit(c, "rejected", "none", Err("AbortError", 0, "none"))
     ELSE /\ timer' = [timer EXCEPT ![c] = "fired"]
          /\ UNCHANGED <<settled, result, error, pc>>
  /\ UNCHANGED <<input, delay, urlCalls, file, streamVars, closureVars>>

\* upload.ts:96-98, the timer callback: uploadController.abort().  The abort
\* rejects what is pending on the signal; in uploadFromBuffer that rejection
\* leaves through the finally of upload(), in the 'data' handler of
\* uploadFromStream it ends the handler.
Timeout(c) ==
  /\ timer[c] = "armed"
  /\ aborted' = [aborted EXCEPT ![c] = TRUE]
  /\ reqs' = AbortPending(c)
  /\ IF file[c].variant = "buffer" /\ InFlight(c) # {}
     THEN UploadExit(c, "rejected", "none", Err("AbortError", 0, "none"))
     ELSE /\ timer' = [timer EXCEPT ![c] = "fired"]
          /\ UNCHANGED <<settled, result, error, pc>>
  /\ UNCHANGED <<input, delay, urlCalls, file, streamVars, closureVars>>

\* ------------------------------------------------------------ specification
Step(c) ==
  \/ ImageUrl(c)
  \/ Normalize(c)
  \/ GetUploadUrlOk(c)
  \/ GetUploadUrlFail(c)
  \/ StreamData(c)
  \/ StreamEnd(c)
  \/ StreamError(c)
  \/ \E i \in 1..MaxChunks, s \in Statuses : ChunkFetchResolves(c, i, s)
  \/ \E i \in 1..MaxChunks : ChunkFetchRejects(c, i)
  \/ \E i \in 1..MaxChunks, b \in Bodies : ChunkBodyRead(c, i, b)
  \/ \E s \in Statuses : BufferFetchResolves(c, s)
  \/ BufferFetchRejects(c)
  \/ \E b \in Bodies : BufferBodyRead(c, b)
  \/ Timeout(c)

Next == \E c \in CallIds : Step(c)

Spec == Init /\ [][Next]_vars

\* two upload calls made one after the other on the same Upload object, both
\* under way at once: a file read as two chunks or as one, a buffer, an
\* image url
ConcSources ==
  {[kind |-> "path", fsKind |-> "file", chunks |-> <<2, 1>>, skip |-> 0],
   [kind |-> "path", fsKind |-> "file", chunks |-> <<1>>, skip |-> 0],
   [kind |-> "buffer", fsKind |-> "file", chunks |-> <<>>, skip |-> 0]}

ConcInputs ==
  {[op |-> "file", source |-> s, timeout |-> <<>>, url |-> "none"] : s \in ConcSources}
  \cup {[op |-> "image", source |-> NoSource, timeout |-> <<>>, url |-> "https://a"]}

ConcInit ==
  \E a, b \in ConcInputs : InitWith([c \in CallIds |-> IF c = 1 THEN a ELSE b], CallIds)

ConcSpec == ConcInit /\ [][Next]_vars

\* What the runtime guarantees: a continuation that is ready runs, a stream in
\* flowing mode delivers its next event, a request gets an answer or fails,
\* an armed timer expires.  A stream error is never bound to happen.
Fairness ==
  \A c \in CallIds :
    /\ WF_vars(ImageUrl(c))
    /\ WF_vars(Normalize(c))
    /\ WF_vars(GetUploadUrlOk(c) \/ GetUploadUrlFail(c))
    /\ WF_vars(StreamData(c) \/ StreamEnd(c))
    /\ WF_vars(\E i \in 1..MaxChunks :
                 \/ ChunkFetchRejects(c, i)
                 \/ \E s \in Statuses : ChunkFetchResolves(c, i, s))
    /\ WF_vars(\E i \in 1..MaxChunks, b \in Bodies : ChunkBodyRead(c, i, b))
    /\ WF_vars(BufferFetchRejects(c) \/ \E s \in Statuses : BufferFetchResolves(c, s))
    /\ WF_vars(\E b \in Bodies : BufferBodyRead(c, b))
    /\ WF_vars(Timeout(c))

FairSpec == Spec /\ Fairness

\* ==================================================================== claims
Active(c) == pc[c] # "absent"

IsStream(c) == file[c].variant = "stream"

IsBuffer(c) == file[c].variant = "buffer"

\* upload() got its URL and created the timer (:94-98): a transmitter was entered
Entered(c) == timer[c] # "none"

\* the bodies of the chunk responses of call c that were read and parsed
ParsedAt(c) == {i \in DOMAIN reqs[c] : reqs[c][i].body \in Bodies /\ Parses(reqs[c][i].body)}

TruthyAt(c) == {i \in DOMAIN reqs[c] : Truthy(reqs[c][i].body)}

Least(S) == CHOOSE i \in S : \A j \in S : i <= j

\* C1: at most one chunk request of an upload is in flight at any moment, and
\* a chunk request that has a successor is no longer awaiting its response.
C1_OneChunkInFlight ==
  \A c \in CallIds :
    /\ Cardinality(InFlight(c)) <= 1
    /\ \A i \in DOMAIN reqs[c] : i < Len(reqs[c]) => ~Pending(reqs[c][i])

\* the second chunk request is in flight, the first one was answered
C1_Witness ==
  \E c \in CallIds :
    /\ Len(reqs[c]) = 2
    /\ reqs[c][1].phase = "done"
    /\ reqs[c][2].phase = "fetch"

\* C2 (as claimed): the i-th chunk request declares the range that starts at
\* the sum of the lengths of the chunks before it and ends one before the sum
\* including it, and when the upload resolves the end of the last range plus
\* one is the declared total.
C2_RangesSumToContentLength ==
  \A c \in CallIds :
    IsStream(c) =>
      /\ \A i \in DOMAIN reqs[c] :
           /\ reqs[c][i].start = SumSeq(SubSeq(input[c].source.chunks, 1, i - 1))
           /\ reqs[c][i].end = SumSeq(SubSeq(input[c].source.chunks, 1, i)) - 1
           /\ reqs[c][i].total = file[c].contentLength
      /\ settled[c] = "resolved" =>
           reqs[c][Len(reqs[c])].end + 1 = file[c].contentLength

\* C3 (as claimed): once a chunk response with status >= 400 was turned into
\* an UploadError, no later chunk request exists and the call has rejected
\* with that error (its status and parsed body).
C3_ErrorStatusRejectsCall ==
  \A c \in CallIds :
    \A i \in DOMAIN reqs[c] :
      (reqs[c][i].hasRange /\ reqs[c][i].err.type = "MaxError") =>
        /\ i = Len(reqs[c])
        /\ settled[c] = "rejected"
        /\ error[c] = Err("MaxError", reqs[c][i].status, reqs[c][i].body)

\* C4 (as claimed): once the deadline expired and the abort hit a request of
\* the call, nothing of the call is in flight and the call has failed with
\* the abort's transfer error, for either transmitter.
C4_DeadlineFailsCall ==
  \A c \in CallIds :
    (aborted[c] /\ \E i \in DOMAIN reqs[c] : reqs[c][i].err.type = "AbortError") =>
      /\ InFlight(c) = {}
      /\ settled[c] = "rejected"
      /\ error[c].type = "AbortError"

\* C5 (as claimed): every upload call eventually settles.
C5_EventuallySettles ==
  \A c \in CallIds : Active(c) => <>(settled[c] # "pending")

\* C6: a settled call has no armed timer (it was cleared, or the call failed
\* or returned its url before one was created), and the abort signal is never
\* raised after the call settled.
C6_TimerClearedOnExit ==
  /\ [](\A c \in CallIds :
          settled[c] # "pending" =>
            /\ timer[c] \in {"none", "cleared"}
            /\ timer[c] = "none" =>
                 \/ error[c].type \in {"IOError", "NotAFile", "ApiError"}
                 \/ input[c].url # "none")
  /\ [][\A c \in CallIds :
          (settled[c] # "pending" /\ ~aborted[c]) => ~aborted'[c]]_vars

\* a transmitter failed without the deadline having expired, the timer is cleared
C6_Witness ==
  \E c \in CallIds :
    /\ settled[c] = "rejected"
    /\ error[c].type \in {"StreamError", "FetchError", "SyntaxError", "FailedToUpload"}
    /\ timer[c] = "cleared"
    /\ ~aborted[c]

\* C7: when the stream of a call ends having delivered no chunk, the call has
\* failed with 'Failed to upload' and no transfer request was issued.
C7_EmptyStreamFails ==
  \A c \in CallIds :
    (IsStream(c) /\ streamState[c] = "ended" /\ input[c].source.chunks = <<>>) =>
      /\ settled[c] = "rejected"
      /\ error[c] = Err("FailedToUpload", 0, "none")
      /\ reqs[c] = <<>>

C7_Witness ==
  \E c \in CallIds :
    IsStream(c) /\ streamState[c] = "ended" /\ input[c].source.chunks = <<>>

\* C8: uploadFromBuffer issues exactly one request, without a range; when its
\* body was read and parsed the call resolved with that body, whatever the
\* status; the call never fails with an UploadError.
C8_BufferReturnsBodyAnyStatus ==
  \A c \in CallIds :
    (IsBuffer(c) /\ Entered(c)) =>
      /\ Len(reqs[c]) = 1
      /\ \A i \in DOMAIN reqs[c] : ~reqs[c][i].hasRange
      /\ ParsedAt(c) # {} => (settled[c] = "resolved" /\ result[c] = reqs[c][1].body)
      /\ settled[c] = "resolved" => ParsedAt(c) = {1}
      /\ settled[c] = "rejected" => error[c].type \in {"FetchError", "SyntaxError", "AbortError"}

\* a buffer upload resolved with the body of a response of status >= 400
C8_Witness ==
  \E c \in CallIds :
    /\ IsBuffer(c)
    /\ settled[c] = "resolved"
    /\ reqs[c][1].status >= 400
    /\ result[c] = reqs[c][1].body

\* C9: for every operation, a path source that is not a regular file makes
\* the call fail with the not-a-file error, with no upload-URL request, no
\* transfer request and no timer.
C9_NotAFileBeforeNetwork ==
  \A c \in CallIds :
    (Active(c) /\ input[c].source.kind = "path" /\ input[c].source.fsKind = "dir") =>
      /\ urlCalls[c] = 0
      /\ reqs[c] = <<>>
      /\ timer[c] = "none"
      /\ ~aborted[c]
      /\ pc[c] # "normalize" =>
           (settled[c] = "rejected" /\ error[c] = Err("NotAFile", 0, "none"))

C9_Witness ==
  \E c \in CallIds :
    /\ input[c].op = "video"
    /\ input[c].source.kind = "path"
    /\ input[c].source.fsKind = "dir"
    /\ settled[c] = "rejected"

\* C10 (as claimed): when the stream is exhausted with every status below 400
\* and some body parsed, the call has resolved with the first body that parsed.
C10_FirstParsedBody ==
  \A c \in CallIds :
    (/\ IsStream(c)
     /\ streamState[c] = "ended"
     /\ \A i \in DOMAIN reqs[c] : reqs[c][i].status < 400
     /\ ParsedAt(c) # {}) =>
      /\ settled[c] = "resolved"
      /\ result[c] = reqs[c][Least(ParsedAt(c))].body

\* C10 (amended): when the stream is exhausted, every chunk request was
\* answered with a status below 400 and no body failed to parse; the call has
\* resolved with the first body that parsed to a truthy value, bodies read
\* before it were falsy, no body after it was read; with no truthy body the
\* call has failed with 'Failed to upload'.
C10_FirstTruthyBody ==
  \A c \in CallIds :
    (IsStream(c) /\ streamState[c] = "ended") =>
      /\ \A i \in DOMAIN reqs[c] :
           /\ reqs[c][i].phase = "done"
           /\ reqs[c][i].status < 400
           /\ reqs[c][i].body # "unparseable"
      /\ IF TruthyAt(c) # {}
         THEN /\ settled[c] = "resolved"
              /\ result[c] = reqs[c][Least(TruthyAt(c))].body
              /\ \A i \in DOMAIN reqs[c] :
                   /\ i < Least(TruthyAt(c)) => reqs[c][i].body = "null"
                   /\ i > Least(TruthyAt(c)) => reqs[c][i].body = "none"
         ELSE /\ settled[c] = "rejected"
              /\ error[c] = Err("FailedToUpload", 0, "none")

\* a falsy body was skipped, the next one was retained and returned
C10_Witness ==
  \E c \in CallIds :
    /\ IsStream(c)
    /\ streamState[c] = "ended"
    /\ Len(reqs[c]) = 2
    /\ reqs[c][1].body = "null"
    /\ Truthy(reqs[c][2].body)
    /\ settled[c] = "resolved"

\* C11: image called with a url resolves with { url: <that url> } and does
\* nothing else: no source normalization, no upload-URL request, no transfer
\* request, no timer.
C11_UrlPassThrough ==
  \A c \in CallIds :
    (Active(c) /\ input[c].op = "image" /\ input[c].url # "none") =>
      /\ file[c] = NoFile
      /\ urlCalls[c] = 0
      /\ reqs[c] = <<>>
      /\ timer[c] = "none"
      /\ delay[c] = 0
      /\ ~aborted[c]
      /\ ~flowing[c]
      /\ settled[c] # "rejected"
      /\ pc[c] # "normalize" =>
           (settled[c] = "resolved" /\ result[c] = UrlObject(input[c].url))

C11_Witness ==
  \E c \in CallIds :
    /\ input[c].url = "https://b"
    /\ settled[c] = "resolved"
    /\ result[c] = "{ url: https://b }"

\* C12 (as claimed): the timer is created with the caller's timeout whenever
\* the caller gives one, and with 20 000 ms otherwise.
C12_SuppliedTimeoutArmed ==
  \A c \in CallIds :
    Entered(c) =>
      delay[c] = IF input[c].timeout # <<>> THEN input[c].timeout[1]
                 ELSE DEFAULT_UPLOAD_TIMEOUT

\* C13: when getUploadUrl fails the call has failed with that error,
\* getUploadUrl was called exactly once, no transfer request exists, no timer
\* was created and no stream listener attached; getUploadUrl is never called
\* more than once by a call.
C13_UploadUrlFailure ==
  \A c \in CallIds :
    /\ urlCalls[c] <= 1
    /\ pc[c] = "getUrl" => (urlCalls[c] = 1 /\ settled[c] = "pending")
    /\ error[c].type = "ApiError" =>
         /\ settled[c] = "rejected"
         /\ error[c] = Err("ApiError", 0, "none")
         /\ urlCalls[c] = 1
         /\ reqs[c] = <<>>
         /\ timer[c] = "none"
         /\ ~flowing[c]
         /\ ~aborted[c]
         /\ pc[c] = "done"

C13_Witness ==
  \E c \in CallIds :
    /\ settled[c] = "rejected"
    /\ error[c].type = "ApiError"
    /\ file[c].variant = "stream"

\* C14: once the stream emitted 'error' the call has rejected with the stream's
\* error, whatever was in flight and whatever payload was captured, and it
\* stays rejected with that error.
C14_StreamErrorRejects ==
  \A c \in CallIds :
    streamState[c] = "errored" =>
      /\ settled[c] = "rejected"
      /\ error[c] = Err("StreamError", 0, "none")
      /\ result[c] = "none"

\* the stream failed with a payload captured and a chunk request in flight
C14_Witness ==
  \E c \in CallIds :
    /\ streamState[c] = "errored"
    /\ Truthy(uploadData[c])
    /\ InFlight(c) # {}
    /\ settled[c] = "rejected"

\* C15 (as claimed): once a chunk response with status >= 400 was handled
\* after an earlier response had yielded a payload, the call has failed (and
\* has not resolved with the earlier payload).
C15_AllOrNothing ==
  \A c \in CallIds :
    \A i, j \in DOMAIN reqs[c] :
      (/\ i < j
       /\ Truthy(reqs[c][i].body)
       /\ reqs[c][j].status >= 400
       /\ reqs[c][j].phase = "threw") =>
        settled[c] = "rejected"

\* the sum of the lengths of the chunk requests of c that were acknowledged
RECURSIVE AckedLen(_)
AckedLen(rs) ==
  IF rs = <<>> THEN 0
  ELSE (IF Head(rs).phase = "done" THEN Head(rs).len ELSE 0) + AckedLen(Tail(rs))

\* C16: the offset of a stream upload is -1 plus the lengths of the chunks
\* acknowledged so far (so -1 at the start, and not advanced by a chunk whose
\* request failed or was answered with a status >= 400), and the range of
\* every chunk request starts right after all the chunks before it.
C16_OffsetTracksAckedChunks ==
  \A c \in CallIds :
    /\ prevChunk[c] = AckedLen(reqs[c]) - 1
    /\ IsStream(c) =>
         \A i \in DOMAIN reqs[c] :
           /\ reqs[c][i].start = SumSeq(SubSeq(input[c].source.chunks, 1, i - 1))
           /\ reqs[c][i].end = reqs[c][i].start + reqs[c][i].len - 1
           /\ reqs[c][i].len = input[c].source.chunks[i]
           /\ reqs[c][i].status >= 400 => reqs[c][i].phase # "done"

\* one chunk of two bytes was acknowledged, the next one was answered >= 400
C16_Witness ==
  \E c \in CallIds :
    /\ Len(reqs[c]) = 2
    /\ reqs[c][1].len = 2
    /\ reqs[c][1].phase = "done"
    /\ reqs[c][2].status >= 400
    /\ reqs[c][2].phase = "threw"
    /\ prevChunk[c] = 1

\* C17: with two calls under way, each call's ranges come from its own chunks
\* and its own total, its result is a body of its own responses, a request is
\* aborted only under the call's own signal, and the step that raises a
\* call's signal is the expiry of that call's own timer and leaves the other
\* call's signal, requests and outcome alone.
C17_CallsIndependent ==
  /\ [](\A c \in CallIds :
          /\ IsStream(c) =>
               \A i \in DOMAIN reqs[c] :
                 /\ reqs[c][i].start = SumSeq(SubSeq(input[c].source.chunks, 1, i - 1))
                 /\ reqs[c][i].end = SumSeq(SubSeq(input[c].source.chunks, 1, i)) - 1
                 /\ reqs[c][i].total = StatSize(input[c].source)
          /\ (IsStream(c) /\ settled[c] = "resolved") =>
               (TruthyAt(c) # {} /\ result[c] = reqs[c][Least(TruthyAt(c))].body)
          /\ (IsBuffer(c) /\ settled[c] = "resolved") => result[c] = reqs[c][1].body
          /\ (\E i \in DOMAIN reqs[c] : reqs[c][i].err.type = "AbortError") => aborted[c]
          /\ aborted[c] => timer[c] \in {"fired", "cleared"}
          /\ Entered(c) => urlCalls[c] = 1)
  /\ [][\A c \in CallIds :
          (aborted'[c] /\ ~aborted[c]) =>
            /\ timer[c] = "armed"
            /\ \A d \in CallIds \ {c} :
                 /\ aborted'[d] = aborted[d]
                 /\ reqs'[d] = reqs[d]
                 /\ settled'[d] = settled[d]
                 /\ timer'[d] = timer[d]]_vars

\* the deadline of one call expired while a request of the other call was in
\* flight, and that request was answered afterwards
C17_Witness ==
  \E c, d \in CallIds :
    /\ c # d
    /\ aborted[c]
    /\ ~aborted[d]
    /\ settled[d] = "resolved"
    /\ IsStream(d)
    /\ Len(reqs[d]) = 2
    /\ \E i \in DOMAIN reqs[c] : reqs[c][i].err.type = "AbortError"

\* C18: once a call has settled, no transfer request is added to it.
C18_NoRequestAfterSettle ==
  [][\A c \in CallIds :
       settled[c] # "pending" => Len(reqs'[c]) = Len(reqs[c])]_vars

\* a call settled by a stream error while the stream was flowing with chunks
\* still to deliver
C18_Witness ==
  \E c \in CallIds :
    /\ settled[c] = "rejected"
    /\ streamState[c] = "errored"
    /\ flowing[c]
    /\ remaining[c] # <<>>

\* C19 (as claimed): a settled call has no transfer request in flight.
C19_NothingInFlightAtSettle ==
  \A c \in CallIds : settled[c] # "pending" => InFlight(c) = {}

\* C19 (amended): a settled call has no transfer request in flight unless it
\* was settled by the stream's error event; then the one chunk request that
\* was outstanding stays in flight, and the timer that could abort it is
\* cleared.
C19_InFlightOnlyAfterStreamError ==
  \A c \in CallIds :
    settled[c] # "pending" =>
      \/ InFlight(c) = {}
      \/ /\ streamState[c] = "errored"
         /\ error[c].type = "StreamError"
         /\ Cardinality(InFlight(c)) = 1
         /\ timer[c] = "cleared"

\* the stream failed while its first chunk request was awaiting the response
C19_Witness ==
  \E c \in CallIds :
    /\ settled[c] = "rejected"
    /\ error[c].type = "StreamError"
    /\ Len(reqs[c]) = 1
    /\ reqs[c][1].phase = "fetch"

====
